---- MODULE Spec2Model ----
(***************************************************************************)
(* Pose Library mockup (pose_library_mockup.py): the keyframe locator      *)
(* find_keyframe, the snapshot extractor copy_fcurves, and the operators   *)
(* anim.create_pose_asset / anim.kick_to_own_file built on them.           *)
(*                                                                         *)
(* Time is measured in ticks of half an epsilon (5e-5 frame), so that the  *)
(* tolerance window of find_keyframe has keyframes strictly inside it, on  *)
(* its border and just outside it.  Values are integers.  Arithmetic is    *)
(* exact: float rounding of the host is not modelled.                      *)
(* Strings that the code inspects (channel paths, bone names) are          *)
(* sequences of one-character strings.                                     *)
(***************************************************************************)
EXTENDS Integers, Sequences, FiniteSets, TLC

\* ------------------------------------------------------------------ bounds
MaxKeyframes == 5
MaxKeys == 2
MaxCurves == 2
MaxActions == 1

\* --------------------------------------------------------------- constants
\* epsilon = 1e-4 frame, in ticks
epsilon == 2
TicksPerFrame == 10000 * epsilon
Frame(n) == n * TicksPerFrame
\* dst_keyframe.co_ui.x = 1.0
NormalizedFrame == Frame(1)

\* Optional[T]: None or a value
None == << >>
Some(x) == <<x>>

\* ------------------------------------------------------------ data model
\* A Keyframe (bpy.types.Keyframe) with the attributes the code reads.
KeyframeTypes == <<"KEYFRAME", "BREAKDOWN", "EXTREME">>
Interpolations == <<"BEZIER", "LINEAR", "ELASTIC">>
Easings == <<"AUTO", "EASE_IN", "EASE_OUT">>
HandleTypes == <<"FREE", "ALIGNED", "VECTOR">>
NumStyles == Len(KeyframeTypes)

\* a keyframe at time t (ticks) with value v; every other attribute is
\* taken from row s of the tables above, handles are placed around co
MkKeyframe(t, v, s) ==
  [ co                |-> <<t, v>>,
    type              |-> KeyframeTypes[s],
    interpolation     |-> Interpolations[s],
    easing            |-> Easings[s],
    amplitude         |-> s,
    back              |-> s + 3,
    period            |-> s + 6,
    handle_left       |-> <<t - (s * TicksPerFrame), v - s>>,
    handle_left_type  |-> HandleTypes[s],
    handle_right      |-> <<t + ((s + 1) * TicksPerFrame), v + (2 * s)>>,
    handle_right_type |-> HandleTypes[NumStyles + 1 - s] ]

StyleAt(i) == ((i - 1) % NumStyles) + 1

\* ------------------------------------------------------------ find_keyframe
\* mutant: the lower bound of the window is excluded (<= for <)
RECURSIVE find_keyframe_loop_exclusive(_, _, _, _)
find_keyframe_loop_exclusive(keyframes, frame, low, high) ==
  IF low <= high
  THEN LET mid == (high + low) \div 2
           keyframe == keyframes[mid + 1]
       IN IF keyframe.co[1] <= frame - epsilon
          THEN find_keyframe_loop_exclusive(keyframes, frame, mid + 1, high)
          ELSE IF keyframe.co[1] > frame + epsilon
          THEN find_keyframe_loop_exclusive(keyframes, frame, low, mid - 1)
          ELSE Some(keyframe)
  ELSE None

\* mutant: the upper comparison is made against frame, not frame + epsilon
RECURSIVE find_keyframe_loop_no_upper(_, _, _, _)
find_keyframe_loop_no_upper(keyframes, frame, low, high) ==
  IF low <= high
  THEN LET mid == (high + low) \div 2
           keyframe == keyframes[mid + 1]
       IN IF keyframe.co[1] < frame - epsilon
          THEN find_keyframe_loop_no_upper(keyframes, frame, mid + 1, high)
          ELSE IF keyframe.co[1] > frame
          THEN find_keyframe_loop_no_upper(keyframes, frame, low, mid - 1)
          ELSE Some(keyframe)
  ELSE None

\* while low <= high: ... (indices are 0-based as in the code)
RECURSIVE find_keyframe_loop(_, _, _, _)
find_keyframe_loop(keyframes, frame, low, high) ==
  IF low <= high
  THEN LET mid == (high + low) \div 2
           keyframe == keyframes[mid + 1]
           frame_lowerbound == frame - epsilon
           frame_upperbound == frame + epsilon
       IN IF keyframe.co[1] < frame_lowerbound
          THEN find_keyframe_loop(keyframes, frame, mid + 1, high)
          ELSE IF keyframe.co[1] > frame_upperbound
          THEN find_keyframe_loop(keyframes, frame, low, mid - 1)
          ELSE Some(keyframe)
  ELSE None

find_keyframe(keyframes, frame) ==
  find_keyframe_loop(keyframes, frame, 0, Len(keyframes) - 1)

\* ------------------------------------------------------------ copy_fcurves
\* pose_bone_re = re.compile(r'pose.bones\["([^"]+)"\]'), used with .match():
\* anchored at the start of the path only; the '.' matches any character
\* but a newline; the group is the non-empty run of characters up to the
\* next double quote, which must be followed by ']'.
\* Returns None or Some(match.group(1)).
Quote == "\""
RECURSIVE FirstQuote(_, _)
FirstQuote(path, i) ==
  IF i > Len(path) THEN 0
  ELSE IF path[i] = Quote THEN i
  ELSE FirstQuote(path, i + 1)

pose_bone_re_at_start(data_path) ==
  IF /\ Len(data_path) >= 12
     /\ SubSeq(data_path, 1, 4) = <<"p", "o", "s", "e">>
     /\ data_path[5] # "\n"
     /\ SubSeq(data_path, 6, 12) = <<"b", "o", "n", "e", "s", "[", Quote>>
  THEN LET q == FirstQuote(data_path, 13)
       IN IF q > 13 /\ q < Len(data_path) /\ data_path[q + 1] = "]"
          THEN Some(SubSeq(data_path, 13, q - 1))
          ELSE None
  ELSE None

\* mutant: the leading "pose." of the pattern is optional
pose_bone_re_optional_prefix(data_path) ==
  IF pose_bone_re_at_start(data_path) # None THEN pose_bone_re_at_start(data_path)
  ELSE pose_bone_re_at_start(<<"p", "o", "s", "e", ".">> \o data_path)

pose_bone_re_match(data_path) == pose_bone_re_at_start(data_path)

\* bpy.data.actions.new / dst_action.fcurves.new / keyframe_points.insert
\* create host objects with the host's defaults, written here as values
\* that no source object of the model carries.
NewFCurve(data_path, index, action_group) ==
  [ data_path       |-> data_path,
    array_index     |-> index,
    \* an empty group name assigns no group
    group           |-> IF action_group = "" THEN None ELSE Some(action_group),
    auto_smoothing  |-> "NONE",
    color           |-> <<0, 0, 0>>,
    color_mode      |-> "AUTO_RAINBOW",
    extrapolation   |-> "CONSTANT",
    keyframe_points |-> << >> ]

\* mutant: frame and value are passed in the wrong order
NewKeyframe_swapped(frame, value, keyframe_type) ==
  [ co                |-> <<value, frame>>,
    type              |-> keyframe_type,
    interpolation     |-> "CONSTANT",
    easing            |-> "EASE_IN_OUT",
    amplitude         |-> 0,
    back              |-> 0,
    period            |-> 0,
    handle_left       |-> <<value - 1, frame>>,
    handle_left_type  |-> "AUTO_CLAMPED",
    handle_right      |-> <<value + 1, frame>>,
    handle_right_type |-> "AUTO_CLAMPED" ]

\* insert(frame, value, keyframe_type=...) into an empty keyframe_points
NewKeyframe(frame, value, keyframe_type) ==
  [ co                |-> <<frame, value>>,
    type              |-> keyframe_type,
    interpolation     |-> "CONSTANT",
    easing            |-> "EASE_IN_OUT",
    amplitude         |-> 0,
    back              |-> 0,
    period            |-> 0,
    handle_left       |-> <<frame - 1, value>>,
    handle_left_type  |-> "AUTO_CLAMPED",
    handle_right      |-> <<frame + 1, value>>,
    handle_right_type |-> "AUTO_CLAMPED" ]

\* for propname in {"auto_smoothing", "color", "color_mode", "extrapolation"}:
\*     setattr(dst_fcurve, propname, getattr(fcurve, propname))
copy_fcurve_props(dst_fcurve, fcurve) ==
  [ dst_fcurve EXCEPT !.auto_smoothing = fcurve.auto_smoothing,
                      !.color          = fcurve.color,
                      !.color_mode     = fcurve.color_mode,
                      !.extrapolation  = fcurve.extrapolation ]

\* mutant: "easing" is missing from the set of copied properties
copy_keyframe_props_no_easing(dst_keyframe, keyframe) ==
  [ dst_keyframe EXCEPT !.amplitude         = keyframe.amplitude,
                        !.back              = keyframe.back,
                        !.handle_left       = keyframe.handle_left,
                        !.handle_left_type  = keyframe.handle_left_type,
                        !.handle_right      = keyframe.handle_right,
                        !.handle_right_type = keyframe.handle_right_type,
                        !.interpolation     = keyframe.interpolation,
                        !.period            = keyframe.period ]

\* for propname in {"amplitude", ..., "period"}:
\*     setattr(dst_keyframe, propname, getattr(keyframe, propname))
copy_keyframe_props(dst_keyframe, keyframe) ==
  [ dst_keyframe EXCEPT !.amplitude         = keyframe.amplitude,
                        !.back              = keyframe.back,
                        !.easing            = keyframe.easing,
                        !.handle_left       = keyframe.handle_left,
                        !.handle_left_type  = keyframe.handle_left_type,
                        !.handle_right      = keyframe.handle_right,
                        !.handle_right_type = keyframe.handle_right_type,
                        !.interpolation     = keyframe.interpolation,
                        !.period            = keyframe.period ]

\* mutant: the keyframe is left at its original frame
co_ui_set_x_not_moved(kf, x) == kf

\* mutant: co.x is assigned instead of co_ui.x, the handles stay behind
co_ui_set_x_co_only(kf, x) == [ kf EXCEPT !.co = <<x, kf.co[2]>> ]

\* dst_keyframe.co_ui.x = x  ("This also moves the handles.")
co_ui_set_x(kf, x) ==
  LET frame_delta == x - kf.co[1]
  IN [ kf EXCEPT !.co           = <<x, kf.co[2]>>,
                 !.handle_left  = <<kf.handle_left[1] + frame_delta, kf.handle_left[2]>>,
                 !.handle_right = <<kf.handle_right[1] + frame_delta, kf.handle_right[2]>> ]

\* dst_fcurve.update(): sorts the keyframes by time and recalculates the
\* handles of curves with at least two keyframes.  Curves built here hold
\* one keyframe, which is left as it is.
fcurve_update(dst_fcurve) ==
  LET kps == dst_fcurve.keyframe_points
      auto(kf) == [ kf EXCEPT !.handle_left  = <<kf.co[1] - 1, kf.co[2]>>,
                              !.handle_right = <<kf.co[1] + 1, kf.co[2]>> ]
  IN IF Len(kps) < 2 THEN dst_fcurve
     ELSE [ dst_fcurve EXCEPT !.keyframe_points = [ i \in 1..Len(kps) |-> auto(kps[i]) ] ]

\* one iteration of "for fcurve in src_action.fcurves", over the pair
\* st = [dst |-> dst_action, src |-> src_action] of objects the function
\* holds references to
copy_fcurve(st, i, src_frame_nr, bone_names) ==
  LET fcurve == st.src.fcurves[i]
      match == pose_bone_re_match(fcurve.data_path)
  IN IF match = None THEN st
     ELSE LET bone_name == match[1]
          IN IF bone_name \notin bone_names THEN st
             ELSE LET keyframe == find_keyframe(fcurve.keyframe_points, src_frame_nr)
                  IN IF keyframe = None THEN st
                     ELSE LET kf == keyframe[1]
                              src_group_name == IF fcurve.group # None THEN fcurve.group[1] ELSE ""
                              new_fcurve == NewFCurve(fcurve.data_path, fcurve.array_index, src_group_name)
                              dst_fcurve == copy_fcurve_props(new_fcurve, fcurve)
                              new_keyframe == NewKeyframe(kf.co[1], kf.co[2], kf.type)
                              dst_keyframe == co_ui_set_x(copy_keyframe_props(new_keyframe, kf),
                                                          NormalizedFrame)
                              done_fcurve == fcurve_update(
                                  [ dst_fcurve EXCEPT !.keyframe_points = <<dst_keyframe>> ])
                          IN [ st EXCEPT !.dst.fcurves = Append(@, done_fcurve),
                                         !.dst.groups = IF src_group_name = "" THEN @
                                                        ELSE @ \cup {src_group_name} ]

RECURSIVE copy_fcurves_from(_, _, _, _)
copy_fcurves_from(st, i, src_frame_nr, bone_names) ==
  IF i > Len(st.src.fcurves) THEN st
  ELSE copy_fcurves_from(copy_fcurve(st, i, src_frame_nr, bone_names), i + 1,
                         src_frame_nr, bone_names)

\* mutant: update() is called on the source curves as well
copy_fcurves_updating_source(dst_action, src_action, src_frame_nr, bone_names) ==
  LET st == copy_fcurves_from([dst |-> dst_action, src |-> src_action], 1,
                              src_frame_nr, bone_names)
  IN [ st EXCEPT !.src.fcurves = [ i \in 1..Len(@) |-> fcurve_update(@[i]) ] ]

\* copy_fcurves(dst_action, src_action, src_frame_nr, bone_names): the two
\* actions as they are when the function returns
copy_fcurves(dst_action, src_action, src_frame_nr, bone_names) ==
  copy_fcurves_from([dst |-> dst_action, src |-> src_action], 1, src_frame_nr, bone_names)

\* bpy.data.actions.new(name)
NewAction(name) ==
  [ name |-> name, id_root |-> "", fcurves |-> << >>, groups |-> {}, asset |-> FALSE ]

\* --------------------------------------------------------------- operators
\* The host's data seen by the operators, h = [actions, file, calls]:
\*   actions  bpy.data.actions, the live actions by identity
\*   file     the content of "my_secret_pose.blend", None before a write
\*   calls    the host calls made by the running execute, in order
FreshId(actions) ==
  CHOOSE i \in 1..(Cardinality(DOMAIN actions) + 1) : i \notin DOMAIN actions

\* bpy.data.actions.new(name); the new action is the one at FreshId
actions_new(h, name) ==
  LET id == FreshId(h.actions)
  IN [ h EXCEPT !.actions = [ i \in DOMAIN h.actions \cup {id} |->
                                 IF i = id THEN NewAction(name) ELSE h.actions[i] ],
                !.calls = Append(@, <<"actions.new", id>>) ]

\* bpy.ops.asset.mark({**context.copy(), "id": dst_action})
asset_mark(h, id) ==
  [ h EXCEPT !.actions[id].asset = TRUE,
             !.calls = Append(@, <<"asset.mark", id>>) ]

\* bpy.data.libraries.write("my_secret_pose.blend", datablocks={action}, ...);
\* a reference to a removed datablock raises ReferenceError
libraries_write(h, id) ==
  IF id \in DOMAIN h.actions
  THEN [ h EXCEPT !.file = Some(h.actions[id]),
                  !.calls = Append(@, <<"libraries.write", id>>) ]
  ELSE [ h EXCEPT !.calls = Append(@, <<"ReferenceError", id>>) ]

\* bpy.data.actions.remove(dst_action)
actions_remove(h, id) ==
  [ h EXCEPT !.actions = [ i \in DOMAIN h.actions \ {id} |-> h.actions[i] ],
             !.calls = Append(@, <<"actions.remove", id>>) ]

\* create_poselib_action(context, src_action, src_frame_nr, bone_names,
\* pose_name), src_action being the live action src_id;
\* returns the host data and the identity of dst_action
create_poselib_action(h, src_id, src_frame_nr, names, pose_name) ==
  LET h1 == actions_new(h, pose_name)
      dst_id == FreshId(h.actions)
      dst_action0 == [ h1.actions[dst_id] EXCEPT !.id_root = h1.actions[src_id].id_root ]
      st == copy_fcurves(dst_action0, h1.actions[src_id], src_frame_nr, names)
      h2 == [ h1 EXCEPT !.actions[dst_id] = st.dst, !.actions[src_id] = st.src ]
  IN [ h |-> asset_mark(h2, dst_id), dst_action |-> dst_id ]

\* mutant: the selection is not checked
poll_without_selection(context) ==
  /\ context.object # None
  /\ context.object[1].mode = "POSE"
  /\ context.object[1].pose
  /\ context.object[1].animation_data # None
  /\ context.object[1].animation_data[1].action # None

\* PoseAssetCreator.poll(context)
poll(context) ==
  /\ context.object # None
  /\ context.object[1].mode = "POSE"
  /\ context.object[1].pose
  /\ context.selected_pose_bones_from_active_object # {}
  /\ context.object[1].animation_data # None
  /\ context.object[1].animation_data[1].action # None

\* the first two statements of both execute methods; the frame number of
\* the scene is converted to the time unit of the model
\*   src_action = context.object.animation_data.action
\*   bone_names = {bone.name for bone in bones}
\* an attribute of None raises AttributeError
execute_arguments(context) ==
  IF context.object = None THEN None
  ELSE IF context.object[1].animation_data = None THEN None
  ELSE Some([ src_action   |-> context.object[1].animation_data[1].action,
              bone_names   |-> context.selected_pose_bones_from_active_object,
              src_frame_nr |-> Frame(context.scene_frame_current) ])

\* what create_poselib_action does when src_action is None: the action is
\* created, then src_action.id_root raises AttributeError
create_without_source(h, pose_name) ==
  [ actions_new(h, pose_name) EXCEPT !.calls = Append(@, <<"AttributeError", 0>>) ]

Raised(h) == [ h EXCEPT !.calls = Append(@, <<"AttributeError", 0>>) ]

\* ANIM_OT_create_pose_asset.execute(context), self.pose_name = pose_name
ANIM_OT_create_pose_asset_execute(h, context, pose_name) ==
  LET args == execute_arguments(context)
  IN IF args = None THEN Raised(h)
     ELSE IF args[1].src_action = None THEN create_without_source(h, pose_name)
     ELSE create_poselib_action(h, args[1].src_action[1], args[1].src_frame_nr,
                                args[1].bone_names, pose_name).h

\* ANIM_OT_kick_to_own_file.save_datablock(action)
save_datablock(h, action) == libraries_write(h, action)

\* mutant: the action is removed before it is saved
ANIM_OT_kick_to_own_file_execute_remove_first(h, context) ==
  LET args == execute_arguments(context)
  IN IF args = None THEN Raised(h)
     ELSE IF args[1].src_action = None THEN create_without_source(h, "RENAME ME")
     ELSE LET r == create_poselib_action(h, args[1].src_action[1], args[1].src_frame_nr,
                                         args[1].bone_names, "RENAME ME")
          IN save_datablock(actions_remove(r.h, r.dst_action), r.dst_action)

\* ANIM_OT_kick_to_own_file.execute(context)
ANIM_OT_kick_to_own_file_execute(h, context) ==
  LET args == execute_arguments(context)
  IN IF args = None THEN Raised(h)
     ELSE IF args[1].src_action = None THEN create_without_source(h, "RENAME ME")
     ELSE LET r == create_poselib_action(h, args[1].src_action[1], args[1].src_frame_nr,
                                         args[1].bone_names, "RENAME ME")
          IN actions_remove(save_datablock(r.h, r.dst_action), r.dst_action)

\* ------------------------------------------------------------------ state
VARIABLES
  fk_keyframes,   \* find_keyframe: fcurve.keyframe_points
  fk_frame,       \* find_keyframe: frame
  fk_result,      \* find_keyframe: returned value
  fk_pc,          \* "call" before the call, "done" after it
  src_action,     \* copy_fcurves: src_action
  src_frame_nr,   \* copy_fcurves: src_frame_nr
  bone_names,     \* copy_fcurves: bone_names
  dst_action,     \* copy_fcurves: dst_action
  cf_pc,          \* "call" before the call, "done" after it
  context,        \* the context the host hands to poll, invoke and execute
  dialog,         \* the properties dialog of anim.create_pose_asset is open
  data_actions,   \* bpy.data.actions: identity -> action
  blend_file,     \* content of "my_secret_pose.blend"
  host_calls,     \* host calls of the last execute, in order
  last_op         \* bl_idname of the operator that executed last

findVars == <<fk_keyframes, fk_frame, fk_result, fk_pc>>
copyVars == <<src_action, src_frame_nr, bone_names, dst_action, cf_pc>>
opVars == <<context, dialog, data_actions, blend_file, host_calls, last_op>>
vars == <<findVars, copyVars, opVars>>

\* the parts of the state a specification does not use
IdleFind ==
  /\ fk_keyframes = << >>
  /\ fk_frame = 0
  /\ fk_result = None
  /\ fk_pc = "idle"

IdleCopy ==
  /\ src_action = NewAction("")
  /\ src_frame_nr = 0
  /\ bone_names = {}
  /\ dst_action = NewAction("")
  /\ cf_pc = "idle"

IdleOps ==
  /\ context = [ object |-> None, selected_pose_bones_from_active_object |-> {},
                 scene_frame_current |-> 0 ]
  /\ dialog = FALSE
  /\ data_actions = << >>
  /\ blend_file = None
  /\ host_calls = << >>
  /\ last_op = "idle"

\* -------------------------------------------- specification: find_keyframe
FindTimes == (Frame(10) - 3) .. (Frame(10) + 3)
FindFrames == {Frame(10) - 1, Frame(10)}

NonDecreasing(ts) == \A i \in 1..(Len(ts) - 1) : ts[i] <= ts[i + 1]
StrictlyIncreasing(ts) == \A i \in 1..(Len(ts) - 1) : ts[i] < ts[i + 1]

\* keyframe_points of a curve are kept ordered by time by the host
OrderedTimeSeqs(T, n) ==
  { ts \in UNION { [1..k -> T] : k \in 0..n } : NonDecreasing(ts) }

KeyframesAt(ts) == [ i \in 1..Len(ts) |-> MkKeyframe(ts[i], i, StyleAt(i)) ]

InitFind ==
  /\ fk_keyframes \in { KeyframesAt(ts) : ts \in OrderedTimeSeqs(FindTimes, MaxKeyframes) }
  /\ fk_frame \in FindFrames
  /\ fk_result = None
  /\ fk_pc = "call"
  /\ IdleCopy
  /\ IdleOps

FindKeyframe ==
  /\ fk_pc = "call"
  /\ fk_result' = find_keyframe(fk_keyframes, fk_frame)
  /\ fk_pc' = "done"
  /\ UNCHANGED <<fk_keyframes, fk_frame, copyVars, opVars>>

NextFind == FindKeyframe
SpecFind == InitFind /\ [][NextFind]_vars

\* --------------------------------------------------- claims: find_keyframe
Times(keyframes) == [ i \in 1..Len(keyframes) |-> keyframes[i].co[1] ]
InWindow(t, frame) == (frame - epsilon <= t) /\ (t <= frame + epsilon)
WindowKeys(keyframes, frame) ==
  { i \in 1..Len(keyframes) : InWindow(keyframes[i].co[1], frame) }

\* C1: on a strictly increasing keyframe sequence find_keyframe returns a
\* keyframe iff some keyframe's time lies in [frame - epsilon, frame +
\* epsilon]; a returned keyframe is one of the sequence and lies in that
\* window; otherwise the result is None.
C1_FindIffInWindow ==
  (fk_pc = "done" /\ StrictlyIncreasing(Times(fk_keyframes))) =>
     /\ (fk_result # None) <=> (WindowKeys(fk_keyframes, fk_frame) # {})
     /\ fk_result # None =>
          \E i \in WindowKeys(fk_keyframes, fk_frame) : fk_result = Some(fk_keyframes[i])

C1_Witness ==
  /\ fk_pc = "done"
  /\ StrictlyIncreasing(Times(fk_keyframes))
  /\ Len(fk_keyframes) = MaxKeyframes
  /\ fk_result # None
  /\ fk_result[1].co[1] # fk_frame

\* C10: on an ordered sequence with more than one keyframe in the window
\* (duplicate times or times closer than 2 epsilon) find_keyframe returns
\* one of the keyframes in the window, never None.
C10_TieReturnsCandidate ==
  (fk_pc = "done" /\ Cardinality(WindowKeys(fk_keyframes, fk_frame)) > 1) =>
     \E i \in WindowKeys(fk_keyframes, fk_frame) : fk_result = Some(fk_keyframes[i])

\* duplicates in the window, and the first keyframe probed is outside it
C10_Witness ==
  /\ fk_pc = "done"
  /\ \E i, j \in WindowKeys(fk_keyframes, fk_frame) :
        i # j /\ fk_keyframes[i].co[1] = fk_keyframes[j].co[1]
  /\ ((Len(fk_keyframes) - 1) \div 2) + 1 \notin WindowKeys(fk_keyframes, fk_frame)
  /\ fk_result # None
\* --------------------------------------------- specification: copy_fcurves
Arm == <<"A", "r", "m">>
Leg == <<"L", "e", "g">>
BoneNames == {Arm, Leg}

PathArmLocation ==
  <<"p", "o", "s", "e", ".", "b", "o", "n", "e", "s", "[", Quote>> \o Arm \o
  <<Quote, "]", ".", "l", "o", "c", "a", "t", "i", "o", "n">>
PathLegRotation ==
  <<"p", "o", "s", "e", ".", "b", "o", "n", "e", "s", "[", Quote>> \o Leg \o
  <<Quote, "]", ".", "r", "o", "t", "a", "t", "i", "o", "n", "_", "e", "u", "l", "e", "r">>
\* the path as the scenario of the specification writes it
PathBonesArmLocation ==
  <<"b", "o", "n", "e", "s", "[", Quote>> \o Arm \o
  <<Quote, "]", ".", "l", "o", "c", "a", "t", "i", "o", "n">>
\* a path that is no pose-bone path but that the pattern's '.' accepts
PathPoseUnderscoreBones ==
  <<"p", "o", "s", "e", "_", "b", "o", "n", "e", "s", "[", Quote>> \o Arm \o
  <<Quote, "]", ".", "s", "c", "a", "l", "e">>

\* source curves: identity and curve-level metadata, one row per curve
CurveHeads ==
  << [ data_path |-> PathArmLocation, array_index |-> 0, group |-> Some("Arm"),
       auto_smoothing |-> "CONT_ACCEL", color |-> <<1, 0, 0>>,
       color_mode |-> "CUSTOM", extrapolation |-> "LINEAR" ],
     [ data_path |-> PathLegRotation, array_index |-> 1, group |-> None,
       auto_smoothing |-> "NONE", color |-> <<0, 1, 0>>,
       color_mode |-> "AUTO_RGB", extrapolation |-> "CONSTANT" ],
     [ data_path |-> PathBonesArmLocation, array_index |-> 0, group |-> Some("Arm"),
       auto_smoothing |-> "CONT_ACCEL", color |-> <<0, 0, 1>>,
       color_mode |-> "AUTO_YRGB", extrapolation |-> "LINEAR" ],
     [ data_path |-> PathPoseUnderscoreBones, array_index |-> 2, group |-> Some("Misc"),
       auto_smoothing |-> "CONT_ACCEL", color |-> <<1, 1, 0>>,
       color_mode |-> "CUSTOM", extrapolation |-> "LINEAR" ] >>

\* source keyframes <<time, value, style>>, in time order: just below the
\* window of frame 10, inside it, exactly on frame 10, and on frame 20
CopyKeys ==
  << <<Frame(10) - 3, 4, 1>>,
     <<Frame(10) - 1, 3, 2>>,
     <<Frame(10), 2, 3>>,
     <<Frame(20), 5, 1>> >>
CopyFrames == {Frame(10), Frame(10) + 1, Frame(20)}

\* the elements of the set of indices S, in increasing order
RECURSIVE Ascending(_)
Ascending(S) ==
  IF S = {} THEN << >>
  ELSE LET m == CHOOSE x \in S : \A y \in S : x <= y
       IN <<m>> \o Ascending(S \ {m})

KeyframeSeqs ==
  { [ k \in 1..Len(idx) |-> MkKeyframe(CopyKeys[idx[k]][1], CopyKeys[idx[k]][2], CopyKeys[idx[k]][3]) ] :
      idx \in { Ascending(S) : S \in { T \in SUBSET (1..Len(CopyKeys)) : Cardinality(T) <= MaxKeys } } }

MkFCurve(head, keyframe_points) ==
  [ data_path       |-> head.data_path,
    array_index     |-> head.array_index,
    group           |-> head.group,
    auto_smoothing  |-> head.auto_smoothing,
    color           |-> head.color,
    color_mode      |-> head.color_mode,
    extrapolation   |-> head.extrapolation,
    keyframe_points |-> keyframe_points ]

\* source actions: at most MaxCurves curves with distinct (data_path,
\* array_index), as the host's fcurves.new enforces
FCurveSeqs ==
  UNION { { [ k \in 1..Len(Ascending(S)) |-> MkFCurve(CurveHeads[Ascending(S)[k]], f[Ascending(S)[k]]) ] :
              f \in [S -> KeyframeSeqs] } :
          S \in { T \in SUBSET (1..Len(CurveHeads)) : Cardinality(T) <= MaxCurves } }

GroupsOf(fcurves) ==
  { fcurves[i].group[1] : i \in { j \in 1..Len(fcurves) : fcurves[j].group # None } }

MkSrcAction(fcurves) ==
  [ name |-> "Walk", id_root |-> "OBJECT", fcurves |-> fcurves,
    groups |-> GroupsOf(fcurves), asset |-> FALSE ]

SrcActions == { MkSrcAction(fcs) : fcs \in FCurveSeqs }

InitCopy ==
  /\ src_action \in SrcActions
  /\ src_frame_nr \in CopyFrames
  /\ bone_names \in SUBSET BoneNames
  /\ dst_action = NewAction("Pose")
  /\ cf_pc = "call"
  /\ IdleFind
  /\ IdleOps

CopyFcurves ==
  /\ cf_pc = "call"
  /\ LET st == copy_fcurves(dst_action, src_action, src_frame_nr, bone_names)
     IN /\ dst_action' = st.dst
        /\ src_action' = st.src
  /\ cf_pc' = "done"
  /\ UNCHANGED <<src_frame_nr, bone_names, findVars, opVars>>

NextCopy == CopyFcurves
SpecCopy == InitCopy /\ [][NextCopy]_vars
\* ------------------------------------------------ specification: operators
\* the action of the active object: two curves, keyframes near 10 and on 20
SceneCurves(S) ==
  [ k \in 1..Len(Ascending(S)) |->
      MkFCurve(CurveHeads[Ascending(S)[k]],
               IF k = 1
               THEN <<MkKeyframe(Frame(10) - 1, 3, 2), MkKeyframe(Frame(20), 5, 1)>>
               ELSE <<MkKeyframe(Frame(10), 2, 3)>>) ]
SceneActions == { MkSrcAction(SceneCurves({1, 2})) }
SceneFrames == {10, 20}
PoseNames == {"Pose"}
SourceId == 1

\* contexts of the host: no active object, or an object with or without
\* pose data (only an object with pose data can be in pose mode and have
\* selected pose bones), with or without animation data and action
Objects ==
  { [ mode |-> m, pose |-> p, animation_data |-> ad ] :
      m \in {"OBJECT", "POSE"}, p \in BOOLEAN,
      ad \in {None, Some([action |-> None]), Some([action |-> Some(SourceId)])} }
Contexts ==
  { c \in [ object : {None} \cup { Some(o) : o \in Objects },
            selected_pose_bones_from_active_object : SUBSET BoneNames,
            scene_frame_current : SceneFrames ] :
      /\ c.object = None => c.selected_pose_bones_from_active_object = {}
      /\ c.object # None =>
           (~c.object[1].pose =>
              /\ c.object[1].mode # "POSE"
              /\ c.selected_pose_bones_from_active_object = {}) }

Host == [ actions |-> data_actions, file |-> blend_file, calls |-> << >> ]

InitOps ==
  /\ context \in Contexts
  /\ dialog = FALSE
  /\ data_actions \in { [ i \in {SourceId} |-> a ] : a \in SceneActions }
  /\ blend_file = None
  /\ host_calls = << >>
  /\ last_op = "none"
  /\ IdleFind
  /\ IdleCopy

Running == last_op # "idle"

\* the user changes the active object, its mode, the selection or the frame
UserEdits ==
  /\ Running
  /\ context' \in Contexts
  /\ UNCHANGED <<dialog, data_actions, blend_file, host_calls, last_op, findVars, copyVars>>

\* ANIM_OT_create_pose_asset.invoke: opens the properties dialog
Invoke_create_pose_asset ==
  /\ Running
  /\ poll(context)
  /\ ~dialog
  /\ dialog' = TRUE
  /\ UNCHANGED <<context, data_actions, blend_file, host_calls, last_op, findVars, copyVars>>

CancelDialog ==
  /\ Running
  /\ dialog
  /\ dialog' = FALSE
  /\ UNCHANGED <<context, data_actions, blend_file, host_calls, last_op, findVars, copyVars>>

\* the host runs execute of an operator only when its poll returns True
Execute_create_pose_asset ==
  /\ Running
  /\ dialog
  /\ poll(context)
  /\ Cardinality(DOMAIN data_actions) <= MaxActions
  /\ \E pose_name \in PoseNames :
       LET h == ANIM_OT_create_pose_asset_execute(Host, context, pose_name)
       IN /\ data_actions' = h.actions
          /\ blend_file' = h.file
          /\ host_calls' = h.calls
  /\ dialog' = FALSE
  /\ last_op' = "anim.create_pose_asset"
  /\ UNCHANGED <<context, findVars, copyVars>>

Execute_kick_to_own_file ==
  /\ Running
  /\ poll(context)
  /\ LET h == ANIM_OT_kick_to_own_file_execute(Host, context)
     IN /\ data_actions' = h.actions
        /\ blend_file' = h.file
        /\ host_calls' = h.calls
  /\ last_op' = "anim.kick_to_own_file"
  /\ UNCHANGED <<context, dialog, findVars, copyVars>>

Next ==
  \/ UserEdits
  \/ Invoke_create_pose_asset
  \/ CancelDialog
  \/ Execute_create_pose_asset
  \/ Execute_kick_to_own_file

Init == InitOps
Spec == Init /\ [][Next]_vars

\* ---------------------------------------------------- claims: copy_fcurves
\* the path addresses bone `name`: it starts with pose, one character,
\* bones[" and continues with the name and "]
IsBonePath(path, name) ==
  /\ name # << >>
  /\ \A i \in 1..Len(name) : name[i] # Quote
  /\ Len(path) >= Len(name) + 14
  /\ SubSeq(path, 1, 4) = <<"p", "o", "s", "e">>
  /\ path[5] # "\n"
  /\ SubSeq(path, 6, 12) = <<"b", "o", "n", "e", "s", "[", Quote>>
  /\ SubSeq(path, 13, Len(name) + 12) = name
  /\ SubSeq(path, Len(name) + 13, Len(name) + 14) = <<Quote, "]">>

\* the source curve is to be extracted
Qualifies(fcurve, frame, names) ==
  /\ \E name \in names : IsBonePath(fcurve.data_path, name)
  /\ WindowKeys(fcurve.keyframe_points, frame) # {}

\* indices of the source curves to be extracted, in source order
QualifyingCurves(action, frame, names) ==
  Ascending({ i \in 1..Len(action.fcurves) : Qualifies(action.fcurves[i], frame, names) })

IsScenario(path) ==
  /\ Len(src_action.fcurves) = 1
  /\ src_action.fcurves[1].data_path = path
  /\ src_action.fcurves[1].array_index = 0
  /\ Len(src_action.fcurves[1].keyframe_points) = 2
  /\ src_action.fcurves[1].keyframe_points[1].co = <<Frame(10), 2>>
  /\ src_action.fcurves[1].keyframe_points[2].co[1] = Frame(20)
  /\ src_frame_nr = Frame(10)

ScenarioOutcome(path) ==
  (cf_pc = "done" /\ IsScenario(path)) =>
     /\ bone_names = {Arm} =>
          /\ Len(dst_action.fcurves) = 1
          /\ Len(dst_action.fcurves[1].keyframe_points) = 1
          /\ dst_action.fcurves[1].keyframe_points[1].co = <<Frame(1), 2>>
     /\ bone_names = {Leg} => Len(dst_action.fcurves) = 0

\* C3 as stated: the curve bones["Arm"].location [0] with keyframes at 10
\* (value 2) and 20, extracted at 10 for {"Arm"}, gives one curve with one
\* keyframe at time 1 and value 2; for {"Leg"} it gives no curve.
C3_ScenarioAsStated == ScenarioOutcome(PathBonesArmLocation)

\* C3 amended: the same scenario for the curve pose.bones["Arm"].location.
C3_ScenarioPoseBones == ScenarioOutcome(PathArmLocation)

C3_Witness ==
  /\ cf_pc = "done"
  /\ IsScenario(PathArmLocation)
  /\ bone_names = {Arm}
  /\ Len(dst_action.fcurves) = 1

\* every keyframe of the destination action
DstKeyframes ==
  UNION { { dst_action.fcurves[k].keyframe_points[i] :
              i \in 1..Len(dst_action.fcurves[k].keyframe_points) } :
          k \in 1..Len(dst_action.fcurves) }

\* C4: every keyframe of the destination is at time 1.
C4_NormalizedTime ==
  cf_pc = "done" => \A kf \in DstKeyframes : kf.co[1] = Frame(1)

\* the k-th destination curve was made from a keyframe that is not exactly
\* on the target time
InexactMatch(k) ==
  LET q == QualifyingCurves(src_action, src_frame_nr, bone_names)
  IN /\ k <= Len(q)
     /\ \A i \in WindowKeys(src_action.fcurves[q[k]].keyframe_points, src_frame_nr) :
           src_action.fcurves[q[k]].keyframe_points[i].co[1] # src_frame_nr

C4_Witness ==
  /\ cf_pc = "done"
  /\ src_frame_nr = Frame(10) + 1
  /\ InexactMatch(1)
  /\ \E kf \in DstKeyframes : kf.co[1] = Frame(1)

\* the handles of d are those of s moved by `shift` back along the time axis
HandlesShifted(d, s, shift) ==
  /\ d.handle_left = <<s.handle_left[1] - shift, s.handle_left[2]>>
  /\ d.handle_right = <<s.handle_right[1] - shift, s.handle_right[2]>>

\* holds when P(d, s) does for every destination keyframe d and one source
\* keyframe s of its source curve that lies in the window of the target
ForDstAndSource(P(_, _)) ==
  LET q == QualifyingCurves(src_action, src_frame_nr, bone_names)
  IN /\ Len(dst_action.fcurves) = Len(q)
     /\ \A k \in 1..Len(q) :
          LET kps == src_action.fcurves[q[k]].keyframe_points
          IN /\ Len(dst_action.fcurves[k].keyframe_points) = 1
             /\ \E i \in WindowKeys(kps, src_frame_nr) :
                  P(dst_action.fcurves[k].keyframe_points[1], kps[i])

\* C5 as stated: the handles of every destination keyframe are the source
\* handles shifted along the time axis by (target time - 1).
C5_ShiftByTargetTime ==
  cf_pc = "done" =>
    LET P(d, s) == HandlesShifted(d, s, src_frame_nr - Frame(1))
    IN ForDstAndSource(P)

\* C5 amended: the handles of every destination keyframe are the handles
\* of the matched source keyframe shifted along the time axis by (time of
\* that keyframe - 1), values unchanged, so the offsets of the handles from
\* the keyframe are the same in source and destination.
C5_ShiftByKeyframeTime ==
  cf_pc = "done" =>
    LET P(d, s) ==
          /\ HandlesShifted(d, s, s.co[1] - Frame(1))
          /\ d.handle_left[1] - d.co[1] = s.handle_left[1] - s.co[1]
          /\ d.handle_right[1] - d.co[1] = s.handle_right[1] - s.co[1]
          /\ d.handle_left[2] - d.co[2] = s.handle_left[2] - s.co[2]
          /\ d.handle_right[2] - d.co[2] = s.handle_right[2] - s.co[2]
    IN ForDstAndSource(P)

C5_Witness ==
  /\ cf_pc = "done"
  /\ src_frame_nr = Frame(10)
  /\ Len(dst_action.fcurves) = 2
  /\ InexactMatch(2)

\* C6: every destination curve has the path, array index, group and the
\* auto_smoothing, color, color_mode and extrapolation of its source curve
\* and holds one keyframe with the value, type, interpolation, easing,
\* amplitude, back, period and handle types of a source keyframe at the
\* target time.
C6_CurveAndKeyframeCopied ==
  cf_pc = "done" =>
    LET q == QualifyingCurves(src_action, src_frame_nr, bone_names)
        P(d, s) ==
          /\ d.co[2] = s.co[2]
          /\ d.type = s.type
          /\ d.interpolation = s.interpolation
          /\ d.easing = s.easing
          /\ d.amplitude = s.amplitude
          /\ d.back = s.back
          /\ d.period = s.period
          /\ d.handle_left_type = s.handle_left_type
          /\ d.handle_right_type = s.handle_right_type
    IN /\ ForDstAndSource(P)
       /\ \A k \in 1..Len(q) :
            LET d == dst_action.fcurves[k]
                f == src_action.fcurves[q[k]]
            IN /\ d.data_path = f.data_path
               /\ d.array_index = f.array_index
               /\ d.group = f.group
               /\ (f.group # None => f.group[1] \in dst_action.groups)
               /\ d.auto_smoothing = f.auto_smoothing
               /\ d.color = f.color
               /\ d.color_mode = f.color_mode
               /\ d.extrapolation = f.extrapolation
       /\ dst_action.groups = GroupsOf(dst_action.fcurves)

\* a grouped and an ungrouped curve extracted, from curves of MaxKeys keyframes
C6_Witness ==
  /\ cf_pc = "done"
  /\ Len(dst_action.fcurves) = 2
  /\ dst_action.fcurves[1].group # None
  /\ dst_action.fcurves[2].group = None
  /\ \A i \in 1..2 : Len(src_action.fcurves[i].keyframe_points) = MaxKeys
\* ------------------------------------- specification: every extraction
\* copy_fcurves called directly and through the operators
InitExtract == InitCopy \/ InitOps
NextExtract == NextCopy \/ Next
SpecExtract == InitExtract /\ [][NextExtract]_vars

\* ------------------------------------------------------- claims: operators
\* C7: an extraction leaves the source action as it was: no step changes
\* src_action of copy_fcurves, and no step of an operator changes an action
\* that was live before it; only new actions appear.
C7_SourceUnchanged ==
  [][ /\ src_action' = src_action
      /\ \A id \in DOMAIN data_actions \cap DOMAIN data_actions' :
           data_actions'[id] = data_actions[id] ]_vars

C7_Witness ==
  /\ last_op = "anim.create_pose_asset"
  /\ \E id \in DOMAIN data_actions : id # SourceId /\ Len(data_actions[id].fcurves) = 2

\* there is an active object in pose mode with pose data, a selected pose
\* bone, animation data and an action
PollCondition(c) ==
  \E o \in Objects :
    /\ c.object = Some(o)
    /\ o.mode = "POSE"
    /\ o.pose = TRUE
    /\ \E b \in BoneNames : b \in c.selected_pose_bones_from_active_object
    /\ \E a \in DOMAIN data_actions : o.animation_data = Some([action |-> Some(a)])

\* a step in which an operator executed
Executed ==
  <<data_actions, blend_file, host_calls, last_op>>' #
  <<data_actions, blend_file, host_calls, last_op>>

\* C8: poll is true exactly when there is an active object in pose mode
\* with pose data, a selected pose bone and animation data with an action,
\* and both operators execute only in such a context, never raising for a
\* missing object or action.
C8_PollGatesExecute ==
  /\ [](Running => (poll(context) <=> PollCondition(context)))
  /\ [][ Executed =>
           /\ PollCondition(context)
           /\ \A i \in 1..Len(host_calls') : host_calls'[i][1] # "AttributeError" ]_vars

C8_Witness ==
  /\ last_op = "anim.kick_to_own_file"
  /\ blend_file # None
  /\ ~poll(context)
  /\ context.object # None

CallsOf(calls, name) == { i \in 1..Len(calls) : calls[i][1] = name }

\* the execute made exactly one actions.new, of an identity not live before
OneFreshAction ==
  /\ Cardinality(CallsOf(host_calls', "actions.new")) = 1
  /\ \A i \in CallsOf(host_calls', "actions.new") : host_calls'[i][2] \notin DOMAIN data_actions

\* C9: every execute creates exactly one fresh action;
\* anim.kick_to_own_file writes it to the file before it removes it and
\* ends with the live actions it started with; anim.create_pose_asset
\* ends with exactly that one action more, marked as asset, and removes
\* nothing; no step removes an action that was live before it.
C9_Lifecycle ==
  [][ /\ DOMAIN data_actions \subseteq DOMAIN data_actions'
      /\ (Executed /\ last_op' = "anim.kick_to_own_file") =>
           /\ OneFreshAction
           /\ \E w \in CallsOf(host_calls', "libraries.write") :
              \E r \in CallsOf(host_calls', "actions.remove") :
                 /\ w < r
                 /\ host_calls'[w][2] = host_calls'[r][2]
                 /\ \A n \in CallsOf(host_calls', "actions.new") :
                       host_calls'[n][2] = host_calls'[w][2]
           /\ blend_file' # None
           /\ DOMAIN data_actions' = DOMAIN data_actions
      /\ (Executed /\ last_op' = "anim.create_pose_asset") =>
           /\ OneFreshAction
           /\ CallsOf(host_calls', "actions.remove") = {}
           /\ \E d \in DOMAIN data_actions' :
                /\ DOMAIN data_actions' = DOMAIN data_actions \cup {d}
                /\ d \notin DOMAIN data_actions
                /\ data_actions'[d].asset
                /\ host_calls'[1] = <<"actions.new", d>> ]_vars

\* a pose stored to the file while MaxActions pose assets are live
C9_Witness ==
  /\ last_op = "anim.kick_to_own_file"
  /\ Cardinality(DOMAIN data_actions) = MaxActions + 1
  /\ blend_file # None
====
